---- MODULE Spec2Model ----
(***************************************************************************)
(* Container lifecycle orchestrator of the desktop-shortcut launch path.   *)
(*                                                                         *)
(* The renderer registers IPC handlers that bring the container to a       *)
(* running, reachable state and launch one application:                    *)
(*   - launchAppWithContainerHandling with its by-name and by-path         *)
(*     handlers (src/src/renderer/utils/getFreeRDP.ts:80-208),             *)
(*   - the older inline by-name handler (src/src/renderer/main.ts:33-121). *)
(* Both drive the shared progress state of useShortcutLaunchState.         *)
(*                                                                         *)
(* One step of the model is one run of handler code between two suspension *)
(* points (an await, a timer callback, a promise callback): JavaScript     *)
(* runs such a piece without interleaving.                                 *)
(***************************************************************************)
EXTENDS Integers, Sequences, FiniteSets, TLC

\* ---------------------------------------------------------------- bounds
\* Number of launch requests in one behaviour.
MaxCalls == 2
\* Longest application list the guest API returns.
MaxApps == 2
\* Most port entries a mapper holds (declared or set).
MaxPorts == 2
\* Number of isPortOpen calls in one behaviour.
MaxProbes == 2

\* ------------------------------------------------------ program constants
\* const maxAttempts = 60  (reachability wait after start/unpause)
MaxOnlineAttempts == 60
\* const maxAttempts = 30  (readiness wait)
MaxReadyAttempts == 30
\* setTimeout(resolve, 1000) in both polling loops
PollIntervalMs == 1000
\* setTimeout(() => launchState.completeLaunch(), 3000)
GraceDelayMs == 3000
\* setTimeout(() => state.value.isLoading = false, 1000) in completeLaunch
DismissDelayMs == 1000

Calls == 1..MaxCalls
Null == "null"

\* ContainerStatus values the handlers distinguish (RUNNING, PAUSED, anything else).
ContainerStatuses == {"stopped", "paused", "running"}

\* The three registered handlers: by name and by path (getFreeRDP.ts), and the
\* older by-name handler of main.ts.
Handlers == {"by-name", "by-path", "legacy"}

\* WinApp records as far as the handlers read them: a name and a path, both
\* strings (an internal app such as the desktop is addressed by a path that is
\* no file path, so the same string may be one app's name and another's path).
Strings == {"a", "b"}
WinApps == [Name : Strings, Path : Strings]
AppLists == UNION {[1..n -> WinApps] : n \in 0..MaxApps}
\* What getApps settles with: a list, or a rejection.
ApiResults == {[ok |-> TRUE, apps |-> l] : l \in AppLists} \cup {[ok |-> FALSE, apps |-> <<>>]}
\* The appName / appPath a shortcut asks for.
Target == "a"

LaunchSteps == {"starting-container", "waiting-online", "launching-app", "completed"}

VARIABLES
    state,          \* useShortcutLaunchState: [isLoading, appName, currentStep]
    isOnline,       \* winboat.isOnline.value
    nCalls,         \* launch requests received so far; the latest call is nCalls
    pc,             \* per call: where its handler is suspended
    attempts,       \* per call: the local `attempts` of the loop it is in
    sleepMs,        \* per call: delay of the pending poll timer (0: none)
    handler,        \* per call: which handler runs it (Null once it returned)
    target,         \* per call: appName / appPath of the request (Null once returned)
    graceTimer,     \* per call: delay of the pending completeLaunch timer (0: none)
    dismissTimer,   \* per call: delay of the pending auto-hide timer (0: none)
    launch,         \* per call: the launchApp promise: none / pending / settled
    log,            \* what the latest call did so far (calls made, console outcome)
    mapper,         \* a ComposePortMapper: [shortPorts, longPorts]
    lastOp,         \* the latest call into port.ts: its arguments and its result
    probes          \* per isPortOpen call: [port, server, code, promise]

\* The port mapper, the record of the latest call into it, and the port probes.
portVars == <<mapper, lastOp, probes>>

vars == <<state, isOnline, nCalls, pc, attempts, sleepMs, handler,
          target, graceTimer, dismissTimer, launch, log, mapper, lastOp, probes>>

\* ----------------------------------------------------- useShortcutLaunchState

IdleState == [isLoading |-> FALSE, appName |-> Null, currentStep |-> Null]

startLaunch(appName) ==
    [isLoading |-> TRUE, appName |-> appName, currentStep |-> "starting-container"]

updateStep(st, step) ==
    IF st.isLoading THEN [st EXCEPT !.currentStep = step] ELSE st

completeLaunch(st) == [st EXCEPT !.currentStep = "completed"]

cancelLaunch == IdleState

dismiss(st) == [st EXCEPT !.isLoading = FALSE]

\* ------------------------------------------------------------- the call log
\* What the latest call read from its collaborators and which calls it made, as
\* a test double of Winboat would record them; cleared when the next call begins.
EmptyLog == [handler |-> Null, sawStatus |-> Null, resumeOk |-> Null,
             appMgr |-> Null, portMgr |-> Null, apiResult |-> <<>>,
             startCalls |-> 0, unpauseCalls |-> 0, listAppsCalls |-> 0,
             launchCalls |-> 0, haltCalls |-> 0, outcome |-> "none",
             cancelRequested |-> FALSE]

\* How the log writes a value the handler read: set / unset, resolved / rejected.
Seen(b) == IF b THEN "yes" ELSE "no"

\* How the log writes what getApps settled with: whether it resolved, and whether
\* the list held an app of the requested name, and one of the requested path.
Summary(res) ==
    [ok |-> res.ok,
     hasName |-> \E i \in 1..Len(res.apps) : res.apps[i].Name = Target,
     hasPath |-> \E i \in 1..Len(res.apps) : res.apps[i].Path = Target]

Running(c) == pc[c] \notin {"idle", "returned"}
Latest(c) == c = nCalls

\* ------------------------------------------------- pieces of the handler code

\* Mutant: the two resume primitives swapped.
ResumeKind_Swapped(h, status) ==
    IF h # "legacy" /\ status = "paused" THEN "starting" ELSE "unpausing"

\* Which Runtime primitive the handler awaits for a container that is not running.
\* getFreeRDP.ts:91-97 unpauses a paused container and starts any other;
\* main.ts:47 calls startContainer whatever the status is.
ResumeKind(h, status) ==
    IF h # "legacy" /\ status = "paused" THEN "unpausing" ELSE "starting"

\* The readiness the second wait polls: isOnline (getFreeRDP.ts:126), and
\* additionally the port manager in main.ts:76. `portMgr` is whether
\* winboat.portMgr.value is set when the handler reads it.
NotReady(h, portMgr) ==
    IF h = "legacy" THEN ~isOnline \/ ~portMgr ELSE ~isOnline

\* Mutant: the bound compared with <= (one attempt too many).
KeepWaitingOnline_OffByOne(a) == ~isOnline /\ a <= MaxOnlineAttempts

\* Loop condition of the reachability wait (getFreeRDP.ts:103, main.ts:53).
KeepWaitingOnline(a) == ~isOnline /\ a < MaxOnlineAttempts

\* Mutant: the readiness wait has no attempt bound.
KeepWaitingReady_Unbounded(h, a, portMgr) == NotReady(h, portMgr)

\* Loop condition of the readiness wait (getFreeRDP.ts:126, main.ts:76).
KeepWaitingReady(h, a, portMgr) == NotReady(h, portMgr) /\ a < MaxReadyAttempts

\* Delay of the timer one loop iteration sleeps on (getFreeRDP.ts:104, 127).
PollDelay(a) == PollIntervalMs

\* findAppFn: apps.find(a => a.Name === appName) (getFreeRDP.ts:186, main.ts:98)
\* and apps.find(a => a.Path === appPath) (getFreeRDP.ts:205).
Matches(h, t, app) == IF h = "by-path" THEN app.Path = t ELSE app.Name = t

\* Mutant: the first app of the list is taken whatever it is.
findApp_First(h, t, apps) == IF Len(apps) > 0 THEN 1 ELSE 0

\* The index of the first match, 0 when there is none.
findApp(h, t, apps) ==
    IF \E i \in 1..Len(apps) : Matches(h, t, apps[i])
    THEN CHOOSE i \in 1..Len(apps) :
            /\ Matches(h, t, apps[i])
            /\ \A j \in 1..(i - 1) : ~Matches(h, t, apps[j])
    ELSE 0

\* A continuation: where the handler is after running to its next suspension
\* point. appMgr / portMgr are the values it read on the way (Null: not read).
Cont(p, a, ms, st, out, nList) ==
    [pc |-> p, attempts |-> a, sleepMs |-> ms, st |-> st, outcome |-> out,
     listApps |-> nList, halts |-> 0, appMgr |-> Null, portMgr |-> Null]

\* Mutant: a failing call stops the container before it returns.
Fail_Rollback(reason) ==
    [Cont("returned", 0, 0, cancelLaunch, reason, 0) EXCEPT !.halts = 1]

\* The handler returns after reporting a failure (cancelLaunch(); return).
Fail(reason) == Cont("returned", 0, 0, cancelLaunch, reason, 0)

\* "Find and launch the app" up to `await winboat.appMgr!.getApps(apiUrl)`
\* (getFreeRDP.ts:139-146, main.ts:89-96): a null appMgr throws inside the try.
LaunchSection(st, appMgr) ==
    [(IF appMgr
      THEN Cont("apps", 0, 0, updateStep(st, "launching-app"), "none", 1)
      ELSE Fail("launch-failed"))
     EXCEPT !.appMgr = Seen(appMgr)]

\* Mutant: the check after the loop is missing, an exhausted wait goes on to
\* the launch section.
ReadyWaitCheck_NoTimeout(h, st, a, appMgr, portMgr) ==
    LET seen == IF h = "legacy" /\ isOnline THEN Seen(portMgr) ELSE Null IN
    [(IF KeepWaitingReady(h, a, portMgr)
      THEN Cont("poll2", a, PollDelay(a), st, "none", 0)
      ELSE LaunchSection(st, appMgr))
     EXCEPT !.portMgr = seen]

\* One evaluation of the readiness loop with `attempts` = a, and what follows it
\* (getFreeRDP.ts:126-136, main.ts:76-86). Only main.ts reads the port manager,
\* and only when isOnline is true (|| short-circuits).
ReadyWaitCheck(h, st, a, appMgr, portMgr) ==
    LET seen == IF h = "legacy" /\ isOnline THEN Seen(portMgr) ELSE Null IN
    [(IF KeepWaitingReady(h, a, portMgr)
      THEN Cont("poll2", a, PollDelay(a), st, "none", 0)
      ELSE IF NotReady(h, portMgr)
      THEN Fail("offline-timeout")
      ELSE LaunchSection(st, appMgr))
     EXCEPT !.portMgr = seen]

\* Mutant: the readiness wait is skipped.
ReadinessWait_Skipped(h, st, appMgr, portMgr) ==
    [LaunchSection(st, appMgr)
     EXCEPT !.portMgr = IF h = "legacy" THEN Seen(portMgr) ELSE Null]

\* "Wait for apps to be loaded and port manager to be ready"
\* (getFreeRDP.ts:121-136, main.ts:71-86).
ReadinessWait(h, st, appMgr, portMgr) ==
    IF ~appMgr \/ NotReady(h, portMgr)
    THEN [ReadyWaitCheck(h, updateStep(st, "waiting-online"), 0, appMgr, portMgr)
          EXCEPT !.appMgr = Seen(appMgr)]
    ELSE [LaunchSection(st, appMgr)
          EXCEPT !.portMgr = IF h = "legacy" THEN Seen(portMgr) ELSE Null]

\* Mutant: the check after the loop is missing, an exhausted wait goes on.
OnlineWaitCheck_NoTimeout(h, st, a, appMgr, portMgr) ==
    IF KeepWaitingOnline(a) THEN Cont("poll1", a, PollDelay(a), st, "none", 0)
    ELSE ReadinessWait(h, st, appMgr, portMgr)

\* One evaluation of the reachability loop with `attempts` = a, and what follows
\* it (getFreeRDP.ts:103-112, main.ts:53-62).
OnlineWaitCheck(h, st, a, appMgr, portMgr) ==
    IF KeepWaitingOnline(a) THEN Cont("poll1", a, PollDelay(a), st, "none", 0)
    ELSE IF ~isOnline THEN Fail("offline-timeout")
    ELSE ReadinessWait(h, st, appMgr, portMgr)

\* Mutant: a failed start/unpause is swallowed and the wait begins anyway.
AfterResume_IgnoresFailure(h, st, ok, appMgr, portMgr) ==
    OnlineWaitCheck(h, updateStep(st, "waiting-online"), 0, appMgr, portMgr)

\* The awaited start/unpause settled: the reachability wait, or the catch block
\* (getFreeRDP.ts:99-117, main.ts:49-67).
AfterResume(h, st, ok, appMgr, portMgr) ==
    IF ok
    THEN OnlineWaitCheck(h, updateStep(st, "waiting-online"), 0, appMgr, portMgr)
    ELSE Fail("start-failed")

\* The log of the latest call after its handler moved to continuation k.
Logged(l, k) ==
    [l EXCEPT !.outcome = k.outcome,
              !.listAppsCalls = @ + k.listApps,
              !.haltCalls = @ + k.halts,
              !.appMgr = IF k.appMgr = Null THEN @ ELSE k.appMgr,
              !.portMgr = IF k.portMgr = Null THEN @ ELSE k.portMgr]

\* The handler of call c moves to continuation k.
Continue(c, k) ==
    /\ pc' = [pc EXCEPT ![c] = k.pc]
    /\ attempts' = [attempts EXCEPT ![c] = k.attempts]
    /\ sleepMs' = [sleepMs EXCEPT ![c] = k.sleepMs]
    /\ state' = k.st
    /\ handler' = [handler EXCEPT ![c] = IF k.pc = "returned" THEN Null ELSE @]
    /\ target' = [target EXCEPT ![c] = IF k.pc = "returned" THEN Null ELSE @]

\* ------------------------------------------------- port.ts: strings and numbers
\* A JavaScript string is the sequence of its characters; a number is a
\* non-negative integer or NaN (no token of a port entry parses to a negative
\* number: a token with "-" in it is split at the "-" first).

NaN == 0 - 1

DigitChars == <<"0", "1", "2", "3", "4", "5", "6", "7", "8", "9">>
Digits == {"0", "1", "2", "3", "4", "5", "6", "7", "8", "9"}
DigitVal(ch) ==
    CASE ch = "0" -> 0 [] ch = "1" -> 1 [] ch = "2" -> 2 [] ch = "3" -> 3 [] ch = "4" -> 4
      [] ch = "5" -> 5 [] ch = "6" -> 6 [] ch = "7" -> 7 [] ch = "8" -> 8 [] ch = "9" -> 9

\* String.prototype.split(sep) for a one-character separator.
\* The least element of a non-empty set of integers.
Least(S) == CHOOSE i \in S : \A j \in S : i <= j

RECURSIVE Split(_, _)
Split(t, sep) ==
    LET at == {i \in 1..Len(t) : t[i] = sep}
    IN  IF at = {} THEN <<t>>
        ELSE <<SubSeq(t, 1, Least(at) - 1)>>
                \o Split(SubSeq(t, Least(at) + 1, Len(t)), sep)

\* Array.prototype.at(-k) on a non-empty array.
AtEnd(a, k) == a[Len(a) + 1 - k]

\* String.prototype.includes(ch) for one character.
Includes(t, ch) == \E i \in 1..Len(t) : t[i] = ch

\* String.prototype.indexOf(sub): the 0-based index of the first occurrence,
\* -1 when there is none (the empty string occurs at 0).
IndexOf(t, sub) ==
    LET at == {i \in 0..(Len(t) - Len(sub)) : SubSeq(t, i + 1, i + Len(sub)) = sub}
    IN  IF at = {} THEN 0 - 1 ELSE Least(at)

\* String.prototype.substring(a, b): both ends clamped to 0..length, swapped
\* when a > b.
Substring(t, a, b) ==
    LET Clamp(x) == IF x < 0 THEN 0 ELSE IF x > Len(t) THEN Len(t) ELSE x
        lo == IF Clamp(a) <= Clamp(b) THEN Clamp(a) ELSE Clamp(b)
        hi == IF Clamp(a) <= Clamp(b) THEN Clamp(b) ELSE Clamp(a)
    IN  SubSeq(t, lo + 1, hi)

\* The value of a string of decimal digits.
RECURSIVE DecimalValue(_)
DecimalValue(t) ==
    IF t = <<>> THEN 0
    ELSE 10 * DecimalValue(SubSeq(t, 1, Len(t) - 1)) + DigitVal(t[Len(t)])

\* parseInt(t): the leading decimal digits, NaN when there are none.
parseInt(t) ==
    LET other == {i \in 1..Len(t) : t[i] \notin Digits}
        n == IF other = {} THEN Len(t) ELSE Least(other) - 1
    IN  IF n = 0 THEN NaN ELSE DecimalValue(SubSeq(t, 1, n))

\* String(n) as a template literal writes a number.
RECURSIVE NumberToString(_)
NumberToString(n) ==
    IF n = NaN THEN <<"N", "a", "N">>
    ELSE IF n < 10 THEN <<DigitChars[n + 1]>>
    ELSE NumberToString(n \div 10) \o <<DigitChars[(n % 10) + 1]>>

\* ------------------------------------------------------- port.ts: the classes

\* `undefined` where the code returns it in place of an index.
Undefined == 0 - 2

\* JavaScript truthiness of a number-or-undefined: !x.
Falsy(x) == x = Undefined \/ x = 0 \/ x = NaN

\* A `Port | Range` value. A Port is a number (start = end = the number), a
\* Range has a start and an end.
Port(n) == [isRange |-> FALSE, start |-> n, end |-> n]
RangeOf(a, b) == [isRange |-> TRUE, start |-> a, end |-> b]

\* Mutant: the end of the range is not read from the token.
RangeFromToken_StartOnly(token) ==
    LET splitToken == Split(token, "-")
    IN  RangeOf(parseInt(splitToken[1]), parseInt(splitToken[1]))

\* new Range(token): `<start>-<end>` (port.ts:44-47).
RangeFromToken(token) ==
    LET splitToken == Split(token, "-")
    IN  RangeOf(parseInt(splitToken[1]),
                IF Len(splitToken) >= 2 THEN parseInt(splitToken[2]) ELSE NaN)

\* Range.toString and the template-literal form of a Port | Range.
PortToString(v) ==
    IF v.isRange THEN NumberToString(v.start) \o <<"-">> \o NumberToString(v.end)
    ELSE NumberToString(v.start)

TCP == <<"t", "c", "p">>
UDP == <<"u", "d", "p">>
DefaultHostIP == <<"0", ".", "0", ".", "0", ".", "0">>

\* A ComposePortEntry, and the placeholder carried by a result that threw.
NoEntry == [hostIP |-> <<>>, host |-> Port(NaN), container |-> Port(NaN), protocol |-> <<>>]

\* A value returned, or an exception thrown.
Return(v) == [ok |-> TRUE, v |-> v, err |-> "none"]
Throw(err, v) == [ok |-> FALSE, v |-> v, err |-> err]

\* get entry(): `${hostIP}:${host}:${container}/${protocol}`, the host empty
\* when it is the number NaN.
entry(e) ==
    LET host == IF ~e.host.isRange /\ e.host.start = NaN THEN <<>> ELSE PortToString(e.host)
    IN  e.hostIP \o <<":">> \o host \o <<":">> \o PortToString(e.container)
            \o <<"/">> \o e.protocol

\* Mutant: every protocol segment is accepted as it is.
parseProtocol_Unchecked(t) ==
    LET segs == Split(t, "/")
    IN  IF Len(segs) < 2 \/ segs[2] = <<>> THEN Return(TCP) ELSE Return(segs[2])

\* parseProtocol: entry.split("/").at(1).
parseProtocol(t) ==
    LET segs == Split(t, "/")
    IN  IF Len(segs) < 2 \/ segs[2] = <<>> THEN Return(TCP)
        ELSE IF segs[2] = TCP \/ segs[2] = UDP THEN Return(segs[2])
        ELSE Throw("unsupported-protocol", <<>>)

parsePortOrRange(token) ==
    IF Includes(token, "-") THEN RangeFromToken(token) ELSE Port(parseInt(token))

\* Mutant: the host of a two-field entry is read from the guest field.
parsePort_GuestOnly(type, t) ==
    parsePortOrRange(Split(AtEnd(Split(t, ":"), 1), "/")[1])

\* Mutant: the host of a one-field entry is left undefined.
parsePort_HostUndefined(type, t) ==
    LET portEntry == Split(t, ":")
        guest == Split(AtEnd(portEntry, 1), "/")[1]
    IN  IF Len(portEntry) = 1
        THEN (IF type = "Host" THEN Port(NaN) ELSE parsePortOrRange(guest))
        ELSE IF type = "Host" THEN parsePortOrRange(AtEnd(portEntry, 2))
        ELSE parsePortOrRange(guest)

\* parsePort(type, entry); type is "Host" or "Container".
parsePort(type, t) ==
    LET portEntry == Split(t, ":")
        guest == Split(AtEnd(portEntry, 1), "/")[1]
    IN  IF Len(portEntry) = 1 THEN parsePortOrRange(guest)
        ELSE IF type = "Host" THEN parsePortOrRange(AtEnd(portEntry, 2))
        ELSE parsePortOrRange(guest)

\* net.isIPv4: four decimal numbers 0..255 without leading zeros.
isIPv4(ip) ==
    LET parts == Split(ip, ".")
    IN  /\ Len(parts) = 4
        /\ \A i \in 1..4 :
             /\ Len(parts[i]) \in 1..3
             /\ \A j \in 1..Len(parts[i]) : parts[i][j] \in Digits
             /\ (Len(parts[i]) > 1 => parts[i][1] # "0")
             /\ DecimalValue(parts[i]) <= 255

HexDigits == Digits \cup {"a", "b", "c", "d", "e", "f"}

\* net.isIPv6, for addresses written in hexadecimal groups: eight groups, or
\* fewer with one "::".
isIPv6(ip) ==
    LET groups == Split(ip, ":")
        full == {i \in 1..Len(groups) : groups[i] # <<>>}
        gaps == {i \in 0..(Len(ip) - 2) : SubSeq(ip, i + 1, i + 2) = <<":", ":">>}
    IN  /\ \A i \in 1..Len(ip) : ip[i] \in HexDigits \cup {":"}
        /\ \A i \in full : Len(groups[i]) <= 4
        /\ \/ Cardinality(gaps) = 0 /\ Len(groups) = 8 /\ Cardinality(full) = 8
           \/ /\ Cardinality(gaps) = 1 /\ Cardinality(full) <= 7
              /\ (ip[1] = ":" => 0 \in gaps)
              /\ (ip[Len(ip)] = ":" => (Len(ip) - 2) \in gaps)

checkValidIP(ip) ==
    IF ~isIPv4(ip) /\ ~isIPv6(ip) THEN Throw("invalid-ip", ip) ELSE Return(ip)

\* parseIP(entry) (port.ts:163-188). rawIP[0] of an empty rawIP is undefined,
\* and calling startsWith on it throws a TypeError.
parseIP(t) ==
    LET FromRawIP(rawIP) ==
            IF rawIP = <<>> THEN Throw("type-error", <<>>)
            ELSE IF rawIP[1] # "[" THEN checkValidIP(rawIP)
            ELSE checkValidIP(Substring(rawIP, 1, Len(rawIP) - 1))
        FromLastPort(lastPort, colonNum) ==
            FromRawIP(Substring(t, 0, IndexOf(t, lastPort) - colonNum))
        FromParts(parts) ==
            IF Len(parts) < 3 THEN Return(DefaultHostIP)
            ELSE IF AtEnd(parts, 2) = <<>> THEN FromLastPort(AtEnd(parts, 1), 2)
            ELSE FromLastPort(AtEnd(parts, 2), 1)
    IN  FromParts(Split(t, ":"))

\* new ComposePortEntry(entry: string) (port.ts:93-96).
EntryFromText(t) ==
    LET Construct(ip, protocol) ==
            IF ~ip.ok THEN Throw(ip.err, NoEntry)
            ELSE IF ~protocol.ok THEN Throw(protocol.err, NoEntry)
            ELSE Return([hostIP |-> ip.v,
                         host |-> parsePort("Host", t),
                         container |-> parsePort("Container", t),
                         protocol |-> protocol.v])
    IN  Construct(parseIP(t), parseProtocol(t))

\* PortEntryOptions as passed by a caller: omitted altogether, or with a
\* protocol and an optional hostIP.
NoOptions == [given |-> FALSE, hasHostIP |-> FALSE, hostIP |-> <<>>, protocol |-> <<>>]
Options(protocol) == [given |-> TRUE, hasHostIP |-> FALSE, hostIP |-> <<>>, protocol |-> protocol]
OptionsWithIP(hostIP, protocol) ==
    [given |-> TRUE, hasHostIP |-> TRUE, hostIP |-> hostIP, protocol |-> protocol]

\* _options?.hostIP ?? "0.0.0.0" and _options?.protocol ?? "tcp".
HostIPOf(options) ==
    IF options.given /\ options.hasHostIP THEN options.hostIP ELSE DefaultHostIP
ProtocolOf(options) == IF options.given THEN options.protocol ELSE TCP

\* new ComposePortEntry(hostPort, guestPort, options) (port.ts:83-90).
EntryFromNumbers(hostPort, guestPort, options) ==
    IF Falsy(guestPort) \/ ~options.given THEN Throw("invalid-constructor-call", NoEntry)
    ELSE Return([hostIP |-> HostIPOf(options),
                 host |-> Port(hostPort),
                 container |-> Port(guestPort),
                 protocol |-> ProtocolOf(options)])

\* No isPortOpen call made.
NoProbe == [port |-> 0, server |-> "none", code |-> "none", promise |-> "none"]

\* A ComposePortMapper before any entry is pushed (port.ts:202-203).
EmptyMapper == [shortPorts |-> <<>>, longPorts |-> <<>>]

\* Mutant: the protocol of the entry is not compared.
findGuestPortIndex_AnyProtocol(m, guestPort, protocol) ==
    LET Hit(i) == /\ ~m.shortPorts[i].container.isRange
                  /\ m.shortPorts[i].container.start = guestPort
    IN  IF \E i \in 1..Len(m.shortPorts) : Hit(i)
        THEN (CHOOSE i \in 1..Len(m.shortPorts) : Hit(i) /\ \A j \in 1..(i - 1) : ~Hit(j)) - 1
        ELSE Undefined

\* findGuestPortIndex: the 0-based index findIndex returns, undefined for -1.
findGuestPortIndex(m, guestPort, protocol) ==
    LET Hit(i) == /\ ~m.shortPorts[i].container.isRange
                  /\ m.shortPorts[i].container.start = guestPort
                  /\ m.shortPorts[i].protocol = protocol
    IN  IF \E i \in 1..Len(m.shortPorts) : Hit(i)
        THEN (CHOOSE i \in 1..Len(m.shortPorts) : Hit(i) /\ \A j \in 1..(i - 1) : ~Hit(j)) - 1
        ELSE Undefined

\* getShortPortMapping: `if (!mappingIdx) return undefined`.
getShortPortMapping(m, guestPort, protocol) ==
    LET mappingIdx == findGuestPortIndex(m, guestPort, protocol)
    IN  IF Falsy(mappingIdx) THEN [found |-> FALSE, v |-> NoEntry]
        ELSE [found |-> TRUE, v |-> m.shortPorts[mappingIdx + 1]]

\* Mutant: an index that was found counts, whatever its value.
hasShortPortMapping_Defined(m, guestPort, protocol) ==
    findGuestPortIndex(m, guestPort, protocol) # Undefined

\* hasShortPortMapping: !!findGuestPortIndex(...).
hasShortPortMapping(m, guestPort, protocol) ==
    ~Falsy(findGuestPortIndex(m, guestPort, protocol))

\* Mutant: the entry is pushed, whatever the index.
Store_Push(m, insertAt, e) == [m EXCEPT !.shortPorts = Append(@, e)]

\* this.shortPorts[insertAt] = e, with insertAt <= length.
Store(m, insertAt, e) ==
    [m EXCEPT !.shortPorts =
        IF insertAt < Len(@) THEN [@ EXCEPT ![insertAt + 1] = e] ELSE Append(@, e)]

\* Mutant: the new entry is always appended.
setShortPortMapping_Append(m, guestPort, host, options) ==
    LET Assign(made) ==
            IF made.ok
            THEN [ok |-> TRUE, err |-> "none", m |-> Store(m, Len(m.shortPorts), made.v)]
            ELSE [ok |-> FALSE, err |-> made.err, m |-> m]
    IN  Assign(IF ~host.isRange
               THEN EntryFromNumbers(host.start, guestPort, options)
               ELSE EntryFromText(HostIPOf(options) \o <<":">> \o PortToString(host)
                       \o <<":">> \o NumberToString(guestPort) \o <<"/">> \o ProtocolOf(options)))

\* setShortPortMapping (port.ts:258-281): the mapper afterwards, or the
\* exception of the entry constructor.
setShortPortMapping(m, guestPort, host, options) ==
    LET found == findGuestPortIndex(m, guestPort, ProtocolOf(options))
        insertAt == IF found = Undefined THEN Len(m.shortPorts) ELSE found
        Assign(made) ==
            IF made.ok THEN [ok |-> TRUE, err |-> "none", m |-> Store(m, insertAt, made.v)]
            ELSE [ok |-> FALSE, err |-> made.err, m |-> m]
    IN  Assign(IF ~host.isRange
               THEN EntryFromNumbers(host.start, guestPort, options)
               ELSE EntryFromText(HostIPOf(options) \o <<":">> \o PortToString(host)
                       \o <<":">> \o NumberToString(guestPort) \o <<"/">> \o ProtocolOf(options)))

\* Mutant: the long-form entries are written as published:target texts too.
composeFormat_WithLong(m) ==
    [i \in 1..Len(m.shortPorts) |-> entry(m.shortPorts[i])]
        \o [i \in 1..Len(m.longPorts) |->
                NumberToString(m.longPorts[i].published) \o <<":">>
                    \o NumberToString(m.longPorts[i].target)]

\* get composeFormat(): the entry text of every short-form entry, in order.
composeFormat(m) == [i \in 1..Len(m.shortPorts) |-> entry(m.shortPorts[i])]

\* An element of compose.services.windows.ports: a short-form string or a
\* LongPortMapping object.
ShortDecl(t) == [long |-> FALSE, text |-> t, target |-> 0, published |-> 0]
LongDecl(guestPort, hostPort) ==
    [long |-> TRUE, text |-> <<>>, target |-> guestPort, published |-> hostPort]

\* Mutant: a declaration that does not parse is left out.
pushPortEntry_Skipping(m, decl) ==
    IF decl.long
    THEN [ok |-> TRUE, err |-> "none", m |-> [m EXCEPT !.longPorts = Append(@, decl)]]
    ELSE LET Push(made) ==
                 [ok |-> TRUE, err |-> "none",
                  m |-> IF made.ok THEN [m EXCEPT !.shortPorts = Append(@, made.v)] ELSE m]
         IN  Push(EntryFromText(decl.text))

\* pushPortEntry (port.ts:215-222): the mapper afterwards, or the exception of
\* the entry constructor.
pushPortEntry(m, decl) ==
    IF decl.long
    THEN [ok |-> TRUE, err |-> "none", m |-> [m EXCEPT !.longPorts = Append(@, decl)]]
    ELSE LET Push(made) ==
                 IF made.ok
                 THEN [ok |-> TRUE, err |-> "none",
                       m |-> [m EXCEPT !.shortPorts = Append(@, made.v)]]
                 ELSE [ok |-> FALSE, err |-> made.err, m |-> m]
         IN  Push(EntryFromText(decl.text))

\* new ComposePortMapper(compose) (port.ts:201-208): every declaration pushed
\* in order; the constructor throws at the first one that does not parse.
RECURSIVE PushAll(_, _)
PushAll(m, ports) ==
    IF ports = <<>> THEN [ok |-> TRUE, err |-> "none", m |-> m]
    ELSE LET Rest(r) == IF r.ok THEN PushAll(r.m, Tail(ports)) ELSE r
         IN  Rest(pushPortEntry(m, Head(ports)))

NewMapper(ports) == PushAll(EmptyMapper, ports)

\* No call into port.ts was made yet.
NoOp == [op |-> "none"]

\* ------------------------------------------------------------------- Init

Init ==
    /\ state = IdleState
    /\ isOnline \in BOOLEAN
    /\ nCalls = 0
    /\ pc = [c \in Calls |-> "idle"]
    /\ attempts = [c \in Calls |-> 0]
    /\ sleepMs = [c \in Calls |-> 0]
    /\ handler = [c \in Calls |-> Null]
    /\ target = [c \in Calls |-> Null]
    /\ graceTimer = [c \in Calls |-> 0]
    /\ dismissTimer = [c \in Calls |-> 0]
    /\ launch = [c \in Calls |-> "none"]
    /\ log = EmptyLog
    /\ mapper = EmptyMapper
    /\ lastOp = NoOp
    /\ probes = [i \in 1..MaxProbes |-> NoProbe]

\* ---------------------------------------------------------------- actions

\* The handler body from the IPC message to its first suspension point
\* (getFreeRDP.ts:174-188 / 193-207 with 86-98; main.ts:33-47).
Begin(c, h, t, status, appMgr, portMgr) ==
    LET l0 == [EmptyLog EXCEPT !.handler = h, !.sawStatus = status] IN
    /\ nCalls' = c
    /\ UNCHANGED <<isOnline, graceTimer, dismissTimer, launch>>
    /\ IF status # "running"
       THEN /\ pc' = [pc EXCEPT ![c] = ResumeKind(h, status)]
            /\ state' = updateStep(startLaunch(t), "starting-container")
            /\ handler' = [handler EXCEPT ![c] = h]
            /\ target' = [target EXCEPT ![c] = t]
            /\ log' = [l0 EXCEPT
                         !.startCalls = IF ResumeKind(h, status) = "starting" THEN 1 ELSE 0,
                         !.unpauseCalls = IF ResumeKind(h, status) = "unpausing" THEN 1 ELSE 0]
            /\ UNCHANGED <<attempts, sleepMs>>
       ELSE LET k == ReadinessWait(h, startLaunch(t), appMgr, portMgr) IN
            /\ pc' = [pc EXCEPT ![c] = k.pc]
            /\ attempts' = [attempts EXCEPT ![c] = k.attempts]
            /\ sleepMs' = [sleepMs EXCEPT ![c] = k.sleepMs]
            /\ state' = k.st
            /\ handler' = [handler EXCEPT ![c] = IF k.pc = "returned" THEN Null ELSE h]
            /\ target' = [target EXCEPT ![c] = IF k.pc = "returned" THEN Null ELSE t]
            /\ log' = Logged(l0, k)
    /\ UNCHANGED portVars

\* A launch request arrives while no handler is executing: the second-instance
\* forwarding of unnamed/part_000:160-179 sends the IPC message, and the
\* renderer's handler starts.
LaunchRequest ==
    /\ nCalls < MaxCalls
    /\ \A d \in Calls : ~Running(d)
    /\ \E h \in Handlers, status \in ContainerStatuses, appMgr \in BOOLEAN,
          portMgr \in BOOLEAN :
         Begin(nCalls + 1, h, Target, status, appMgr, portMgr)

\* winboat.startContainer() / unpauseContainer() settles.
ResumeReturn(c) ==
    /\ pc[c] \in {"starting", "unpausing"}
    /\ \E ok \in BOOLEAN, appMgr \in BOOLEAN, portMgr \in BOOLEAN :
         LET k == AfterResume(handler[c], state, ok, appMgr, portMgr) IN
         /\ Continue(c, k)
         /\ log' = IF Latest(c) THEN [Logged(log, k) EXCEPT !.resumeOk = Seen(ok)] ELSE log
    /\ UNCHANGED <<isOnline, nCalls, graceTimer, dismissTimer, launch>>
    /\ UNCHANGED portVars

\* The 1000 ms timer of the reachability loop fires: attempts++, then the loop
\* condition again (getFreeRDP.ts:103-112).
OnlinePollFire(c) ==
    /\ pc[c] = "poll1"
    /\ \E appMgr \in BOOLEAN, portMgr \in BOOLEAN :
         LET k == OnlineWaitCheck(handler[c], state, attempts[c] + 1, appMgr, portMgr) IN
         /\ Continue(c, k)
         /\ log' = IF Latest(c) THEN Logged(log, k) ELSE log
    /\ UNCHANGED <<isOnline, nCalls, graceTimer, dismissTimer, launch>>
    /\ UNCHANGED portVars

\* The 1000 ms timer of the readiness loop fires (getFreeRDP.ts:126-136).
ReadyPollFire(c) ==
    /\ pc[c] = "poll2"
    /\ \E appMgr \in BOOLEAN, portMgr \in BOOLEAN :
         LET k == ReadyWaitCheck(handler[c], state, attempts[c] + 1, appMgr, portMgr) IN
         /\ Continue(c, k)
         /\ log' = IF Latest(c) THEN Logged(log, k) ELSE log
    /\ UNCHANGED <<isOnline, nCalls, graceTimer, dismissTimer, launch>>
    /\ UNCHANGED portVars

\* A launch request arrives while an earlier handler is still awaiting the guest
\* API: nothing in unnamed/part_000:160-179 or in the handlers holds it back.
OverlappingLaunchRequest ==
    /\ nCalls < MaxCalls
    /\ \E d \in Calls : Running(d)
    /\ \A d \in Calls : Running(d) => pc[d] = "apps"
    /\ \E h \in Handlers, status \in ContainerStatuses, appMgr \in BOOLEAN,
          portMgr \in BOOLEAN :
         Begin(nCalls + 1, h, Target, status, appMgr, portMgr)

\* Mutant: the launch is dispatched a second time.
AfterListApps_LaunchesTwice(h, t, st, ok, apps) ==
    IF ok /\ findApp(h, t, apps) # 0
    THEN [launch |-> "pending", grace |-> GraceDelayMs, st |-> st,
          outcome |-> "dispatched", launchCalls |-> 2]
    ELSE [launch |-> "none", grace |-> 0, st |-> cancelLaunch,
          outcome |-> IF ok THEN "app-not-found" ELSE "launch-failed",
          launchCalls |-> 0]

\* Mutant: the launch is awaited, so no grace timer is armed at dispatch.
AfterListApps_AwaitsLaunch(h, t, st, ok, apps) ==
    IF ok /\ findApp(h, t, apps) # 0
    THEN [launch |-> "pending", grace |-> 0, st |-> st,
          outcome |-> "dispatched", launchCalls |-> 1]
    ELSE [launch |-> "none", grace |-> 0, st |-> cancelLaunch,
          outcome |-> IF ok THEN "app-not-found" ELSE "launch-failed",
          launchCalls |-> 0]

\* What the handler does with the result of getApps: launch the first match and
\* start the grace timer, or report the failure (getFreeRDP.ts:146-170,
\* main.ts:96-120). `apps` is the list returned; ok = FALSE is a rejected call.
AfterListApps(h, t, st, ok, apps) ==
    IF ok /\ findApp(h, t, apps) # 0
    THEN [launch |-> "pending", grace |-> GraceDelayMs, st |-> st,
          outcome |-> "dispatched", launchCalls |-> 1]
    ELSE [launch |-> "none", grace |-> 0, st |-> cancelLaunch,
          outcome |-> IF ok THEN "app-not-found" ELSE "launch-failed",
          launchCalls |-> 0]

\* getApps settles and the handler runs to its end.
ListAppsReturn(c) ==
    /\ pc[c] = "apps"
    /\ \E res \in ApiResults :
         LET r == AfterListApps(handler[c], target[c], state, res.ok, res.apps) IN
         /\ launch' = [launch EXCEPT ![c] = r.launch]
         /\ graceTimer' = [graceTimer EXCEPT ![c] = r.grace]
         /\ state' = r.st
         /\ log' = IF Latest(c)
                   THEN [log EXCEPT !.outcome = r.outcome,
                                    !.launchCalls = @ + r.launchCalls,
                                    !.apiResult = <<Summary(res)>>]
                   ELSE log
    /\ pc' = [pc EXCEPT ![c] = "returned"]
    /\ handler' = [handler EXCEPT ![c] = Null]
    /\ target' = [target EXCEPT ![c] = Null]
    /\ UNCHANGED <<isOnline, nCalls, attempts, sleepMs, dismissTimer>>
    /\ UNCHANGED portVars

\* The grace timer fires: completeLaunch() (getFreeRDP.ts:160-162,
\* useShortcutLaunchState.ts:32-38).
GraceTimerFire(c) ==
    /\ graceTimer[c] # 0
    /\ graceTimer' = [graceTimer EXCEPT ![c] = 0]
    /\ state' = completeLaunch(state)
    /\ dismissTimer' = [dismissTimer EXCEPT ![c] = DismissDelayMs]
    /\ UNCHANGED <<isOnline, nCalls, pc, attempts, sleepMs, handler,
                   target, launch, log>>
    /\ UNCHANGED portVars

\* The auto-hide timer fires (useShortcutLaunchState.ts:35-37).
DismissTimerFire(c) ==
    /\ dismissTimer[c] # 0
    /\ dismissTimer' = [dismissTimer EXCEPT ![c] = 0]
    /\ state' = dismiss(state)
    /\ UNCHANGED <<isOnline, nCalls, pc, attempts, sleepMs, handler,
                   target, graceTimer, launch, log>>
    /\ UNCHANGED portVars

\* winboat.launchApp(app) rejects: the .catch handler (getFreeRDP.ts:153-156).
LaunchReject(c) ==
    /\ launch[c] = "pending"
    /\ launch' = [launch EXCEPT ![c] = "settled"]
    /\ state' = cancelLaunch
    /\ log' = IF Latest(c) THEN [log EXCEPT !.outcome = "launch-rejected"] ELSE log
    /\ UNCHANGED <<isOnline, nCalls, pc, attempts, sleepMs, handler,
                   target, graceTimer, dismissTimer>>
    /\ UNCHANGED portVars

\* winboat.launchApp(app) resolves (the remote session ended): no handler is attached.
LaunchResolve(c) ==
    /\ launch[c] = "pending"
    /\ launch' = [launch EXCEPT ![c] = "settled"]
    /\ UNCHANGED <<state, isOnline, nCalls, pc, attempts, sleepMs,
                   handler, target, graceTimer, dismissTimer, log>>
    /\ UNCHANGED portVars

\* The overlay's Cancel button (ShortcutLoadingOverlay.vue:44-47) requests
\* cancellation: cancelLaunch() (useShortcutLaunchState.ts:40-46).
CancelRequest ==
    /\ state.isLoading
    /\ state' = cancelLaunch
    /\ log' = IF nCalls > 0 /\ Running(nCalls)
              THEN [log EXCEPT !.cancelRequested = TRUE] ELSE log
    /\ UNCHANGED <<isOnline, nCalls, pc, attempts, sleepMs, handler,
                   target, graceTimer, dismissTimer, launch>>
    /\ UNCHANGED portVars

\* The guest starts or stops answering the health probe.
GuestOnline ==
    /\ ~isOnline
    /\ isOnline' = TRUE
    /\ UNCHANGED <<state, nCalls, pc, attempts, sleepMs, handler,
                   target, graceTimer, dismissTimer, launch, log>>
    /\ UNCHANGED portVars

GuestOffline ==
    /\ isOnline
    /\ isOnline' = FALSE
    /\ UNCHANGED <<state, nCalls, pc, attempts, sleepMs, handler,
                   target, graceTimer, dismissTimer, launch, log>>
    /\ UNCHANGED portVars

Next ==
    \/ LaunchRequest
    \/ \E c \in Calls : ResumeReturn(c)
    \/ \E c \in Calls : OnlinePollFire(c)
    \/ \E c \in Calls : ReadyPollFire(c)
    \/ \E c \in Calls : ListAppsReturn(c)
    \/ \E c \in Calls : GraceTimerFire(c)
    \/ \E c \in Calls : DismissTimerFire(c)
    \/ \E c \in Calls : LaunchReject(c)
    \/ \E c \in Calls : LaunchResolve(c)
    \/ CancelRequest
    \/ GuestOnline
    \/ GuestOffline

Spec == Init /\ [][Next]_vars

\* The same program when launch requests also arrive during a running handler.
NextOverlap == Next \/ OverlappingLaunchRequest

SpecOverlap == Init /\ [][NextOverlap]_vars

\* A pending grace timer does fire: the event loop runs every due timer callback.
Fairness == \A c \in Calls : WF_vars(GraceTimerFire(c))

SpecFair == Spec /\ Fairness

\* What a running handler waits for arrives: the awaited Runtime or Guest API
\* call settles, the sleep ends.
HandlerStep ==
    \E c \in Calls :
        ResumeReturn(c) \/ OnlinePollFire(c) \/ ReadyPollFire(c) \/ ListAppsReturn(c)

\* A due timer callback runs.
TimerStep == \E c \in Calls : GraceTimerFire(c) \/ DismissTimerFire(c)

Progress == WF_vars(HandlerStep) /\ WF_vars(TimerStep)

SpecProgress == Spec /\ Progress

\* ------------------------------------------------------- port.ts: the callers

\* Everything outside port.ts.
orchVars == <<state, isOnline, nCalls, pc, attempts, sleepMs, handler,
              target, graceTimer, dismissTimer, launch, log>>

\* Tokens the port-entry texts are composed of.
IP_10_0_0_80 == <<"1", "0", ".", "0", ".", "0", ".", "8", "0">>
IP_127_0_0_1 == <<"1", "2", "7", ".", "0", ".", "0", ".", "1">>
IP6_Loopback == <<":", ":", "1">>
IP6_Bracketed == <<"[", ":", ":", "1", "]">>
IPTokens == {DefaultHostIP, IP_10_0_0_80, IP_127_0_0_1, IP6_Loopback, IP6_Bracketed}
HostTokens == {<<"1">>, <<"8", "0">>, <<"8", "0", "8", "0">>, <<"8", "0", "-", "8", "1">>, <<>>}
GuestTokens == {<<"8", "0">>, <<"8", "0", "-", "8", "1">>}
\* Texts the compose grammar does not allow: an IP part that is no address
\* (0.0.0.0:80, 999.0.0.1), a port field that is no number or range, and
\* numbers outside 1..65535 or a range that runs backwards.
IP_WithPort == DefaultHostIP \o <<":", "8", "0">>
IP_OutOfRange == <<"9", "9", "9", ".", "0", ".", "0", ".", "1">>
InvalidIPTokens == {IP_WithPort, IP_OutOfRange}
MalformedTokens == {<<"x">>, <<"8", "x">>, <<"8", "0", "-", "x">>}
OutOfRangeTokens == {<<"0">>, <<"7", "0", "0", "0", "0">>, <<"8", "1", "-", "8", "0">>}
\* What follows the guest field: nothing, or a "/" and a protocol segment.
ProtocolSegments == {<<>>, <<"/">>, <<"/">> \o TCP, <<"/">> \o UDP, <<"/", "b", "o", "g", "u", "s">>}

\* A port-entry text by its fields: guest, host:guest or hostIP:host:guest.
EntrySources ==
    {[fields |-> 1, ip |-> <<>>, host |-> <<>>, guest |-> g, seg |-> sg] :
        g \in GuestTokens, sg \in ProtocolSegments}
    \cup {[fields |-> 2, ip |-> <<>>, host |-> h, guest |-> g, seg |-> sg] :
        h \in HostTokens, g \in GuestTokens, sg \in ProtocolSegments}
    \cup {[fields |-> 3, ip |-> i, host |-> h, guest |-> g, seg |-> sg] :
        i \in IPTokens, h \in HostTokens, g \in GuestTokens, sg \in ProtocolSegments}
    \cup {[fields |-> 3, ip |-> i, host |-> h, guest |-> <<"8", "0">>, seg |-> <<>>] :
        i \in InvalidIPTokens, h \in {<<"8", "0">>, <<"8", "0", "8", "0">>}}
    \cup {[fields |-> 2, ip |-> <<>>, host |-> <<"1", "-", "8", "0">>,
            guest |-> <<"8", "0", "-", "8", "1">>, seg |-> sg] : sg \in {<<>>, <<"/">> \o UDP}}
    \cup {[fields |-> 1, ip |-> <<>>, host |-> <<>>, guest |-> g, seg |-> <<>>] :
        g \in MalformedTokens \cup OutOfRangeTokens}
    \cup {[fields |-> 2, ip |-> <<>>, host |-> h, guest |-> <<"8", "0">>, seg |-> <<>>] :
        h \in MalformedTokens \cup OutOfRangeTokens}
    \cup {[fields |-> 2, ip |-> <<>>, host |-> <<"8", "0", "8", "0">>, guest |-> g, seg |-> <<>>] :
        g \in MalformedTokens \cup OutOfRangeTokens}

EntryText(src) ==
    (IF src.fields = 3 THEN src.ip \o <<":">> ELSE <<>>)
        \o (IF src.fields >= 2 THEN src.host \o <<":">> ELSE <<>>)
        \o src.guest \o src.seg

\* A caller constructs a ComposePortEntry from a text.
ParseEntry ==
    /\ \E src \in EntrySources :
         lastOp' = [op |-> "parse", src |-> src, res |-> EntryFromText(EntryText(src))]
    /\ UNCHANGED mapper
    /\ UNCHANGED <<orchVars, probes>>

\* A caller reads .entry of the ComposePortEntry it has just constructed.
RenderEntry ==
    /\ lastOp.op = "parse"
    /\ lastOp.res.ok
    /\ lastOp' = [op |-> "render", src |-> lastOp.src, res |-> lastOp.res,
                  text |-> entry(lastOp.res.v)]
    /\ UNCHANGED mapper
    /\ UNCHANGED <<orchVars, probes>>

\* A caller asks ComposePortEntry.parseProtocol for the protocol of a text.
ParseProtocol ==
    /\ \E src \in EntrySources :
         lastOp' = [op |-> "protocol", src |-> src, res |-> parseProtocol(EntryText(src))]
    /\ UNCHANGED mapper
    /\ UNCHANGED <<orchVars, probes>>

NextParse == ParseEntry \/ RenderEntry \/ ParseProtocol

\* Callers that parse and render single port entries.
SpecParse == Init /\ [][NextParse]_vars

\* Declarations a compose file may list under services.windows.ports.
Decls ==
    {ShortDecl(<<"8", "0", "8", "0", ":", "8", "0">>),
     ShortDecl(<<"8", "0", "8", "1", ":", "8", "0", "/", "u", "d", "p">>),
     ShortDecl(<<"8", "0", "-", "8", "1", ":", "8", "0", "-", "8", "1">>),
     ShortDecl(<<"8", "0", "8", "0", ":", "8", "0", "/", "b", "o", "g", "u", "s">>),
     ShortDecl(<<"7", "0", "0", "0", "0", ":", "8", "0">>),
     LongDecl(80, 7000)}
Composes == UNION {[1..n -> Decls] : n \in 0..MaxPorts}

\* Arguments callers pass to the mapper.
GuestPorts == {80}
LookupPorts == GuestPorts \cup {81}
HostValues == {Port(80), RangeOf(80, 81)}
OptionValues == {NoOptions, Options(TCP), Options(UDP), OptionsWithIP(IP_10_0_0_80, TCP)}
Protocols == {TCP, UDP}

\* new ComposePortMapper(compose), before any other call: when the constructor
\* throws there is no mapper, and the callers go on with an empty one.
ConstructMapper ==
    /\ lastOp.op = "none"
    /\ \E ports \in Composes : \E r \in {NewMapper(ports)} :
         /\ mapper' = IF r.ok THEN r.m ELSE mapper
         /\ lastOp' = [op |-> "new", ports |-> ports, ok |-> r.ok, err |-> r.err]
    /\ UNCHANGED <<orchVars, probes>>

\* mapper.setShortPortMapping(guestPort, host, options?).
SetMapping ==
    /\ \E g \in GuestPorts, h \in HostValues, o \in OptionValues :
       \E r \in {setShortPortMapping(mapper, g, h, o)} :
         /\ Len(r.m.shortPorts) <= MaxPorts
         /\ mapper' = r.m
         /\ lastOp' = [op |-> "set", guestPort |-> g, host |-> h, options |-> o,
                       ok |-> r.ok, err |-> r.err]
    /\ UNCHANGED <<orchVars, probes>>

\* mapper.getShortPortMapping(guestPort, protocol).
Lookup ==
    /\ \E g \in LookupPorts, pr \in Protocols :
       \E r \in {getShortPortMapping(mapper, g, pr)} :
         lastOp' = [op |-> "get", guestPort |-> g, protocol |-> pr,
                    found |-> r.found, v |-> r.v]
    /\ UNCHANGED mapper
    /\ UNCHANGED <<orchVars, probes>>

\* mapper.hasShortPortMapping(guestPort, protocol).
HasMapping ==
    /\ \E g \in LookupPorts, pr \in Protocols :
         lastOp' = [op |-> "has", guestPort |-> g, protocol |-> pr,
                    res |-> hasShortPortMapping(mapper, g, pr)]
    /\ UNCHANGED mapper
    /\ UNCHANGED <<orchVars, probes>>

\* The compose file is written from composeFormat and read back: a mapper is
\* constructed from the texts of the present one.
Reload ==
    /\ mapper.shortPorts # <<>>
    /\ \E texts \in {composeFormat(mapper)} :
       \E r \in {NewMapper([i \in 1..Len(texts) |-> ShortDecl(texts[i])])} :
         /\ mapper' = IF r.ok THEN r.m ELSE mapper
         /\ lastOp' = [op |-> "reload", ok |-> r.ok, err |-> r.err]
    /\ UNCHANGED <<orchVars, probes>>

\* A caller reads mapper.composeFormat.
Serialize ==
    /\ lastOp' = [op |-> "serialize", texts |-> composeFormat(mapper)]
    /\ UNCHANGED mapper
    /\ UNCHANGED <<orchVars, probes>>

NextMapper ==
    ConstructMapper \/ SetMapping \/ Lookup \/ HasMapping \/ Reload \/ Serialize

\* Callers that build a port mapper and query and change it.
SpecMapper == Init /\ [][NextMapper]_vars

\* ------------------------------------------------------ port.ts: isPortOpen

Probes == 1..MaxProbes

\* The arguments isPortOpen is called with: a number or a decimal string.
ProbeInputs ==
    {[isString |-> FALSE, n |-> 80, text |-> <<>>],
     [isString |-> FALSE, n |-> 3389, text |-> <<>>],
     [isString |-> TRUE, n |-> 0, text |-> <<"8", "0", "8", "0">>]}

\* What the "error" event of the transient server can carry.
BindErrors == {"EADDRINUSE", "EACCES"}

\* if (typeof port === "string") port = Number.parseInt(port) (port.ts:315-317).
ProbePort(input) == IF input.isString THEN parseInt(input.text) ELSE input.n

\* resolve(v): settles a pending promise, has no effect on a settled one.
Resolve(promise, v) == IF promise = "pending" THEN v ELSE promise

\* server.once("error", ...) (port.ts:322-326): resolve(false) for EADDRINUSE,
\* nothing for any other code.
onError(promise, code) ==
    IF code = "EADDRINUSE" THEN Resolve(promise, "false") ELSE promise

\* server.once("listening", ...) (port.ts:328-331): resolve(true), then close.
onListening(promise) == Resolve(promise, "true")

\* isPortOpen(port): the promise executor creates the server, registers both
\* handlers and calls server.listen(port) (port.ts:314-334).
isPortOpen(i) ==
    /\ probes[i].promise = "none"
    /\ \E input \in ProbeInputs :
         probes' = [probes EXCEPT ![i] = [port |-> ProbePort(input), server |-> "binding",
                                          code |-> "none", promise |-> "pending"]]
    /\ UNCHANGED <<orchVars, mapper, lastOp>>

\* The bind succeeds: the server emits "listening".
BindListening(i) ==
    /\ probes[i].server = "binding"
    /\ probes' = [probes EXCEPT ![i].promise = onListening(@),
                                ![i].server = "closed"]
    /\ UNCHANGED <<orchVars, mapper, lastOp>>

\* The bind fails: the server emits "error" with some code.
BindError(i) ==
    /\ probes[i].server = "binding"
    /\ \E code \in BindErrors :
         probes' = [probes EXCEPT ![i].promise = onError(@, code),
                                  ![i].server = "failed",
                                  ![i].code = code]
    /\ UNCHANGED <<orchVars, mapper, lastOp>>

NextProbe == \E i \in Probes : isPortOpen(i) \/ BindListening(i) \/ BindError(i)

\* A bind attempt ends: the server emits "listening" or "error".
ProbeFairness == \A i \in Probes : WF_vars(BindListening(i) \/ BindError(i))

\* Callers that probe host ports.
SpecProbe == Init /\ [][NextProbe]_vars /\ ProbeFairness

\* ------------------------------------------------------------------ claims

\* The handler of call c ran in this step (it moved, or its loop counted on).
Moved(c) == pc'[c] # pc[c] \/ attempts'[c] # attempts[c]

\* The latest call's request asked for an app the settled list holds.
ListHasTarget(l) ==
    /\ l.apiResult # <<>>
    /\ l.apiResult[1].ok
    /\ IF l.handler = "by-path" THEN l.apiResult[1].hasPath ELSE l.apiResult[1].hasName

\* C1, step by step, for the latest call when it found the container stopped:
\* it calls start once and never unpause; when its reachability poll finds the
\* guest online (the 3rd check is attempts = 2) with the app and port managers
\* set, it goes on to listApps; when the list holds the target it dispatches the
\* launch and arms the grace timer.
C1_Steps ==
    LET c == nCalls' IN
    /\ log'.sawStatus = "stopped" =>
          /\ log'.startCalls = 1
          /\ log'.unpauseCalls = 0
    /\ (nCalls' = nCalls + 1 /\ log'.sawStatus = "stopped") => pc'[c] = "starting"
    /\ ( /\ nCalls' = nCalls /\ nCalls > 0
         /\ log.sawStatus = "stopped"
         /\ pc[c] = "poll1" /\ Moved(c) /\ isOnline
         /\ log'.appMgr = "yes"
         /\ (log.handler = "legacy" => log'.portMgr = "yes") )
       => ( /\ pc'[c] = "apps"
            /\ log'.listAppsCalls = 1
            /\ log'.outcome = "none" )
    /\ ( /\ nCalls' = nCalls /\ nCalls > 0
         /\ log.sawStatus = "stopped"
         /\ pc[c] = "apps" /\ Moved(c)
         /\ ListHasTarget(log') )
       => ( /\ launch'[c] = "pending"
            /\ log'.launchCalls = 1
            /\ log'.outcome = "dispatched"
            /\ graceTimer'[c] = GraceDelayMs )

\* C1 (happy path): a call that finds the container stopped invokes
\* Runtime.start exactly once and never unpause, proceeds to listApps once the
\* guest is seen online (on the 3rd poll as on any other), dispatches the launch
\* when the list holds the target, and a dispatched launch always reaches phase
\* completed when its grace timer fires.
C1_HappyPath ==
    /\ [][C1_Steps]_vars
    /\ \A c \in Calls :
         (graceTimer[c] # 0) ~>
            (graceTimer[c] = 0 /\ dismissTimer[c] # 0 /\ state.currentStep = "completed")

\* A stopped container was started once, the launch was dispatched and the phase
\* is completed.
C1_Witness ==
    /\ nCalls > 0
    /\ log.sawStatus = "stopped" /\ log.resumeOk = "yes"
    /\ log.startCalls = 1 /\ log.unpauseCalls = 0
    /\ ListHasTarget(log) /\ log.launchCalls = 1
    /\ dismissTimer[nCalls] # 0
    /\ state.currentStep = "completed"

\* C2 (paused-resume path): whenever the latest call found the container
\* paused, it has invoked Runtime.unpause and has not invoked Runtime.start.
C2_PausedUnpauses ==
    (nCalls > 0 /\ log.sawStatus = "paused") =>
        (log.unpauseCalls = 1 /\ log.startCalls = 0)

\* C3 (timeout path): when the 60th sleep of the reachability wait ends with the
\* guest still unreachable, the call returns with the progress reset and the
\* timeout reported; a call that timed out has invoked neither listApps nor
\* launch and has no grace or dismiss timer that could complete it.
C3_Steps ==
    LET c == nCalls IN
    /\ ( /\ nCalls' = nCalls /\ nCalls > 0
         /\ pc[c] = "poll1" /\ attempts[c] = MaxOnlineAttempts - 1
         /\ Moved(c) /\ ~isOnline )
       => ( /\ pc'[c] = "returned"
            /\ state' = IdleState
            /\ log'.outcome = "offline-timeout" )
    /\ (nCalls' > 0 /\ log'.outcome = "offline-timeout")
       => ( /\ pc'[nCalls'] = "returned"
            /\ log'.listAppsCalls = 0
            /\ log'.launchCalls = 0
            /\ launch'[nCalls'] = "none"
            /\ graceTimer'[nCalls'] = 0
            /\ dismissTimer'[nCalls'] = 0 )

C3_TimeoutPath == [][C3_Steps]_vars

\* The reachability wait of a started container ran out.
C3_Witness ==
    /\ nCalls > 0
    /\ log.resumeOk = "yes" /\ log.appMgr = Null
    /\ log.outcome = "offline-timeout"
    /\ pc[nCalls] = "returned"
    /\ state = IdleState

\* C4 (resume failure): when start/unpause fails the progress is reset in that
\* step, and the call has returned with exactly one Runtime call made, no poll
\* sleep, no read of the managers, no listApps, no launch and no timer.
C4_Steps ==
    /\ (log.resumeOk # "no" /\ log'.resumeOk = "no") => state' = IdleState
    /\ (nCalls' > 0 /\ log'.resumeOk = "no")
       => ( /\ pc'[nCalls'] = "returned"
            /\ log'.outcome = "start-failed"
            /\ log'.startCalls + log'.unpauseCalls = 1
            /\ attempts'[nCalls'] = 0 /\ sleepMs'[nCalls'] = 0
            /\ log'.appMgr = Null
            /\ log'.listAppsCalls = 0
            /\ log'.launchCalls = 0
            /\ launch'[nCalls'] = "none"
            /\ graceTimer'[nCalls'] = 0
            /\ dismissTimer'[nCalls'] = 0 )

C4_ResumeFailure == [][C4_Steps]_vars

\* An unpause failed and the call ended.
C4_Witness ==
    /\ nCalls > 0
    /\ log.resumeOk = "no" /\ log.unpauseCalls = 1
    /\ pc[nCalls] = "returned"
    /\ state = IdleState

\* C5 (one outstanding launch): no two calls are both between their start and
\* their handler's return.
C5_OneOutstanding ==
    \A c, d \in Calls : (Running(c) /\ Running(d)) => c = d

\* C6 (cancellation): once cancellation was requested during the latest call,
\* that call starts no further poll sleep, invokes neither listApps nor launch,
\* and does not change the progress state again.
C6_Steps ==
    LET c == nCalls IN
    (log.cancelRequested /\ nCalls' = nCalls /\ Running(c) /\ Moved(c))
    => ( /\ pc'[c] \notin {"poll1", "poll2"}
         /\ log'.listAppsCalls = log.listAppsCalls
         /\ log'.launchCalls = log.launchCalls
         /\ state' = state )

C6_CancelStopsCall == [][C6_Steps]_vars

\* A timer or promise callback left behind by call c ran in this step.
Deferred(c) ==
    \/ graceTimer'[c] # graceTimer[c]
    \/ dismissTimer'[c] # dismissTimer[c]
    \/ launch[c] = "pending" /\ launch'[c] # "pending"

\* C7 (progress belongs to its call): while a later call is in progress, no
\* deferred action of an earlier call changes isLoading, appName or currentStep.
C7_Steps ==
    \A c \in Calls :
        (c < nCalls /\ pc[c] = "returned" /\ Running(nCalls) /\ Deferred(c))
        => state' = state

C7_OnlyOwnCallMutates == [][C7_Steps]_vars

\* C8 (lookup miss): when getApps rejected or the list holds no app matching the
\* request (by Name for a by-name request, by Path for a by-path one), the
\* progress is reset in that step and the call has returned with no launch
\* dispatched and no grace or dismiss timer.
C8_Steps ==
    LET c == nCalls IN
    /\ ( /\ nCalls' = nCalls /\ nCalls > 0
         /\ pc[c] = "apps" /\ Moved(c)
         /\ ~ListHasTarget(log') )
       => state' = IdleState
    /\ (nCalls' > 0 /\ log'.apiResult # <<>> /\ ~ListHasTarget(log'))
       => ( /\ pc'[nCalls'] = "returned"
            /\ log'.outcome = (IF log'.apiResult[1].ok THEN "app-not-found"
                                                       ELSE "launch-failed")
            /\ log'.launchCalls = 0
            /\ launch'[nCalls'] = "none"
            /\ graceTimer'[nCalls'] = 0
            /\ dismissTimer'[nCalls'] = 0 )

C8_LookupMiss == [][C8_Steps]_vars

\* A by-name request met a list holding the string only as a path.
C8_Witness ==
    /\ nCalls > 0
    /\ log.handler = "by-name"
    /\ log.apiResult # <<>> /\ log.apiResult[1].ok
    /\ ~log.apiResult[1].hasName /\ log.apiResult[1].hasPath
    /\ log.outcome = "app-not-found"
    /\ state = IdleState

\* C9 (grace timer drives completed): the phase becomes completed only in a step
\* in which a 3000 ms grace timer fires; a grace timer that fires sets it,
\* whatever the state of the launchApp promise; and
\* dispatching a launch arms the grace timer at once, without the promise settling.
C9_Steps ==
    /\ (state'.currentStep = "completed" /\ state.currentStep # "completed")
       => \E c \in Calls : graceTimer[c] = GraceDelayMs /\ graceTimer'[c] = 0
    /\ \A c \in Calls :
         /\ (graceTimer[c] # 0 /\ graceTimer'[c] = 0)
            => state'.currentStep = "completed"
         /\ (launch[c] = "none" /\ launch'[c] # "none")
            => (launch'[c] = "pending" /\ graceTimer'[c] = GraceDelayMs)
         /\ (launch[c] = "pending" /\ launch'[c] # "pending")
            => graceTimer'[c] = graceTimer[c]

C9_GraceDrivesCompleted == [][C9_Steps]_vars

\* The phase is completed while the dispatched launch call is still pending.
C9_Witness ==
    \E c \in Calls :
        /\ launch[c] = "pending"
        /\ graceTimer[c] = 0 /\ dismissTimer[c] = DismissDelayMs
        /\ state.isLoading /\ state.currentStep = "completed"

\* C10 (bounded polling): a pending sleep is always a 1000 ms timer, at most the
\* 60th of the reachability wait or the 30th of the readiness wait; a sleep is
\* started only after a check that found the guest not ready, and counts one up;
\* a reachability check that finds the guest online starts no further sleep; and
\* the check after the last sleep ends the wait, failed when the guest is
\* still unreachable.
C10_Steps ==
    \A c \in Calls :
        /\ pc'[c] = "poll1" =>
              (attempts'[c] < MaxOnlineAttempts /\ sleepMs'[c] = PollIntervalMs)
        /\ pc'[c] = "poll2" =>
              (attempts'[c] < MaxReadyAttempts /\ sleepMs'[c] = PollIntervalMs)
        /\ pc'[c] \notin {"poll1", "poll2"} => sleepMs'[c] = 0
        /\ (Moved(c) /\ pc'[c] = "poll1")
           => (~isOnline /\ attempts'[c] = IF pc[c] = "poll1" THEN attempts[c] + 1 ELSE 0)
        /\ (Moved(c) /\ pc'[c] = "poll2")
           => attempts'[c] = IF pc[c] = "poll2" THEN attempts[c] + 1 ELSE 0
        /\ (Moved(c) /\ pc'[c] = "poll2" /\ handler'[c] # "legacy") => ~isOnline
        /\ (Moved(c) /\ pc[c] = "poll1" /\ isOnline) => pc'[c] # "poll1"
        /\ (Moved(c) /\ pc[c] = "poll2" /\ isOnline /\ handler[c] # "legacy")
           => pc'[c] # "poll2"
        /\ (Moved(c) /\ pc[c] = "poll1" /\ attempts[c] = MaxOnlineAttempts - 1 /\ ~isOnline)
           => (pc'[c] = "returned" /\ state' = IdleState)
        /\ (Moved(c) /\ pc[c] = "poll2" /\ attempts[c] = MaxReadyAttempts - 1 /\ ~isOnline)
           => (pc'[c] = "returned" /\ state' = IdleState)

C10_BoundedPolling == [][C10_Steps]_vars

\* The last sleep of each wait is pending: the 60th, or the 30th.
C10_Witness ==
    \E c \in Calls :
        \/ pc[c] = "poll1" /\ attempts[c] = MaxOnlineAttempts - 1
        \/ pc[c] = "poll2" /\ attempts[c] = MaxReadyAttempts - 1

\* ------------------------------------------------------- claims on port.ts

\* What a host or guest token of the entry texts stands for.
TokenValue(tok) ==
    CASE tok = <<>> -> Port(NaN)
      [] tok = <<"1">> -> Port(1)
      [] tok = <<"8", "0">> -> Port(80)
      [] tok = <<"8", "0", "8", "0">> -> Port(8080)
      [] tok = <<"8", "0", "-", "8", "1">> -> RangeOf(80, 81)
      [] tok = <<"0">> -> Port(0)
      [] tok = <<"7", "0", "0", "0", "0">> -> Port(70000)
      [] tok = <<"8", "1", "-", "8", "0">> -> RangeOf(81, 80)
      [] tok = <<"1", "-", "8", "0">> -> RangeOf(1, 80)

\* A bare IPv4 or IPv6 literal.
ValidIP(ip) == isIPv4(ip) \/ isIPv6(ip)

\* hostIP:host:guest/protocol with every part present and valid.
FourPart(src) ==
    /\ src.fields = 3
    /\ ValidIP(src.ip)
    /\ src.host # <<>>
    /\ src.seg \in {<<"/">> \o TCP, <<"/">> \o UDP}

\* C11 (round-trip): every valid four-part text parses, and the entry parsed
\* from it renders as exactly that text.
C11_RoundTrip ==
    /\ (lastOp.op = "parse" /\ FourPart(lastOp.src)) => lastOp.res.ok
    /\ (lastOp.op = "render" /\ FourPart(lastOp.src)) => lastOp.text = EntryText(lastOp.src)

\* C12 (re-parse stability): every entry the mapper holds parses back from its
\* own rendering to the same (hostIP, host, guest, protocol), and a reload of
\* the mapper from composeFormat succeeds and changes nothing.
C12_ReparseStable ==
    /\ \A i \in 1..Len(mapper.shortPorts) :
         LET again == EntryFromText(entry(mapper.shortPorts[i]))
         IN  again.ok /\ again.v = mapper.shortPorts[i]
    /\ lastOp.op = "reload" => lastOp.ok

\* The entry setShortPortMapping is asked to store.
Asked(op) ==
    [hostIP |-> HostIPOf(op.options), host |-> op.host,
     container |-> Port(op.guestPort), protocol |-> ProtocolOf(op.options)]

\* C13 (setMapping never raises): every setMapping call completes, and the
\* mapper then holds the entry asked for, with protocol tcp and hostIP 0.0.0.0
\* where the option was not given.
C13_SetNeverRaises ==
    lastOp.op = "set" =>
        /\ lastOp.ok
        /\ \E i \in 1..Len(mapper.shortPorts) : mapper.shortPorts[i] = Asked(lastOp)

\* Positions of the short-form entries with concrete guest port g and protocol pr.
Holding(m, g, pr) ==
    {i \in 1..Len(m.shortPorts) :
        /\ ~m.shortPorts[i].container.isRange
        /\ m.shortPorts[i].container.start = g
        /\ m.shortPorts[i].protocol = pr}

\* This step is a setShortPortMapping(g, h, options) call with options given.
SetStep == lastOp'.op = "set" /\ lastOp'.options.given

\* C14 as stated: setMapping(g, h, {protocol: p}) replaces the entry at every
\* position i that holds (g, p), keeps the length and all other positions; with
\* no such entry it appends exactly one entry and keeps all positions.
C14_AnyPosition ==
    SetStep =>
        LET at == Holding(mapper, lastOp'.guestPort, lastOp'.options.protocol)
            old == mapper.shortPorts
            new == mapper'.shortPorts
        IN  IF at # {}
            THEN /\ Len(new) = Len(old)
                 /\ \A i \in at : new[i] = Asked(lastOp')
                 /\ \A j \in (1..Len(old)) \ at : new[j] = old[j]
            ELSE /\ Len(new) = Len(old) + 1
                 /\ new[Len(new)] = Asked(lastOp')
                 /\ \A j \in 1..Len(old) : new[j] = old[j]

C14_FirstPosition ==
    SetStep =>
        LET at == Holding(mapper, lastOp'.guestPort, lastOp'.options.protocol)
            old == mapper.shortPorts
            new == mapper'.shortPorts
        IN  /\ lastOp'.ok
            /\ mapper'.longPorts = mapper.longPorts
            /\ IF at # {}
               THEN /\ Len(new) = Len(old)
                    /\ new[Least(at)] = Asked(lastOp')
                    /\ \A j \in (1..Len(old)) \ {Least(at)} : new[j] = old[j]
               ELSE /\ Len(new) = Len(old) + 1
                    /\ new[Len(new)] = Asked(lastOp')
                    /\ \A j \in 1..Len(old) : new[j] = old[j]

C15_LookupFirst ==
    lastOp.op = "get" =>
        LET at == Holding(mapper, lastOp.guestPort, lastOp.protocol)
        IN  at # {} => (lastOp.found /\ lastOp.v = mapper.shortPorts[Least(at)])

\* C16 (lookup miss): a lookup leaves the mapper as it is, and when no
\* short-form entry has the concrete guest port with the protocol asked for
\* (the port only inside a range, only under the other protocol, only in a
\* long-form entry, or nowhere) it returns not-found.
C16_Steps ==
    lastOp'.op = "get" =>
        /\ mapper' = mapper
        /\ Holding(mapper, lastOp'.guestPort, lastOp'.protocol) = {} => ~lastOp'.found

C16_LookupMiss == [][C16_Steps]_vars

\* lookup(81, tcp) found nothing in a mapper whose range 80-81 contains 81,
\* and lookup(80, tcp) nothing when 80 is only a long-form target or only udp.
C16_Witness ==
    /\ lastOp.op = "get" /\ ~lastOp.found /\ lastOp.protocol = TCP
    /\ \/ /\ lastOp.guestPort = 81
          /\ \E i \in 1..Len(mapper.shortPorts) :
                /\ mapper.shortPorts[i].container.isRange
                /\ mapper.shortPorts[i].container.start <= 81
                /\ mapper.shortPorts[i].container.end >= 81
       \/ /\ lastOp.guestPort = 80
          /\ Holding(mapper, 80, TCP) = {}
          /\ Holding(mapper, 80, UDP) # {}
          /\ \E i \in 1..Len(mapper.longPorts) : mapper.longPorts[i].target = 80

C18_ProtocolEnforced ==
    /\ lastOp.op = "protocol" =>
          LET seg == lastOp.src.seg IN
          /\ seg \in {<<>>, <<"/">>} => (lastOp.res.ok /\ lastOp.res.v = TCP)
          /\ seg = <<"/">> \o TCP => (lastOp.res.ok /\ lastOp.res.v = TCP)
          /\ seg = <<"/">> \o UDP => (lastOp.res.ok /\ lastOp.res.v = UDP)
          /\ seg \notin {<<>>, <<"/">>, <<"/">> \o TCP, <<"/">> \o UDP} =>
                (~lastOp.res.ok /\ lastOp.res.err = "unsupported-protocol")
    /\ lastOp.op = "parse" =>
          LET seg == lastOp.src.seg IN
          /\ seg \notin {<<>>, <<"/">>, <<"/">> \o TCP, <<"/">> \o UDP} => ~lastOp.res.ok
          /\ lastOp.res.ok =>
                lastOp.res.v.protocol = (IF seg = <<"/">> \o UDP THEN UDP ELSE TCP)

\* "8080:80/udp" parsed with protocol udp, and parseProtocol refused
\* "8080:80/bogus".
C18_Witness ==
    \/ /\ lastOp.op = "parse" /\ lastOp.res.ok
       /\ lastOp.src.fields = 2 /\ lastOp.src.seg = <<"/">> \o UDP
       /\ lastOp.res.v.protocol = UDP
    \/ /\ lastOp.op = "protocol" /\ ~lastOp.res.ok
       /\ lastOp.src.seg \notin {<<>>, <<"/">>, <<"/">> \o TCP, <<"/">> \o UDP}

\* C19 (dynamic host port): a text hostIP::guest[/protocol] with a valid
\* hostIP parses to the host NaN (never 0) and the hostIP written before the
\* empty field, and the entry renders with an empty host token.
C19_DynamicHost ==
    LET src == lastOp.src
        dynamic == /\ src.fields = 3 /\ src.host = <<>> /\ ValidIP(src.ip)
                   /\ src.seg \in {<<>>, <<"/">> \o TCP, <<"/">> \o UDP}
        protocol == IF src.seg = <<>> THEN TCP ELSE Tail(src.seg)
    IN  /\ (lastOp.op = "parse" /\ dynamic) =>
              /\ lastOp.res.ok
              /\ lastOp.res.v.host = Port(NaN)
              /\ lastOp.res.v.hostIP = src.ip
        /\ (lastOp.op = "render" /\ dynamic) =>
              lastOp.text = src.ip \o <<":", ":">> \o src.guest \o <<"/">> \o protocol

\* C20 (default inference): a two-field text host:guest with no protocol
\* segment parses to hostIP 0.0.0.0, the host of the first field, the guest of
\* the second and protocol tcp, and renders as 0.0.0.0:host:guest/tcp.
C20_DefaultInference ==
    LET src == lastOp.src
        twoField == /\ src.fields = 2 /\ src.seg = <<>>
                    /\ src.host \notin MalformedTokens /\ src.guest \notin MalformedTokens
    IN  /\ (lastOp.op = "parse" /\ twoField) =>
              /\ lastOp.res.ok
              /\ lastOp.res.v = [hostIP |-> DefaultHostIP,
                                 host |-> TokenValue(src.host),
                                 container |-> TokenValue(src.guest),
                                 protocol |-> TCP]
        /\ (lastOp.op = "render" /\ twoField) =>
              lastOp.text = DefaultHostIP \o <<":">> \o src.host \o <<":">>
                                \o src.guest \o <<"/">> \o TCP

\* "8080:80" was parsed and rendered as "0.0.0.0:8080:80/tcp".
C20_Witness ==
    /\ lastOp.op = "render"
    /\ lastOp.src.fields = 2 /\ lastOp.src.seg = <<>>
    /\ lastOp.src.host = <<"8", "0", "8", "0">> /\ lastOp.src.guest = <<"8", "0">>
    /\ lastOp.res.v.host = Port(8080) /\ lastOp.res.v.container = Port(80)
    /\ lastOp.text = DefaultHostIP \o <<":", "8", "0", "8", "0", ":", "8", "0", "/">> \o TCP

\* The IP part of a text without the square brackets around it.
Literal(ip) ==
    IF Len(ip) >= 2 /\ ip[1] = "[" /\ ip[Len(ip)] = "]" THEN SubSeq(ip, 2, Len(ip) - 1)
    ELSE ip

\* C21 (IP literal handling): for a text with an IP part, parsing raises
\* whenever the part, brackets stripped, is neither a valid IPv4 nor a valid
\* IPv6 address; an entry that is parsed holds a valid hostIP, and the hostIP
\* of a bracketed part is the part without its brackets.
C21_IPLiteral ==
    (lastOp.op = "parse" /\ lastOp.src.fields = 3) =>
        /\ ~ValidIP(Literal(lastOp.src.ip)) => ~lastOp.res.ok
        /\ lastOp.res.ok => ValidIP(lastOp.res.v.hostIP)
        /\ (lastOp.res.ok /\ lastOp.src.ip = IP6_Bracketed) =>
              lastOp.res.v.hostIP = IP6_Loopback

\* C22 (construction fails as a whole): when a text of the declared port list
\* does not parse, constructing the mapper raises and leaves no mapper;
\* otherwise the short-form collection holds the parsed text entries in
\* declaration order and the long-form collection the structured entries,
\* unmodified and in order.
C22_ConstructionWhole ==
    lastOp.op = "new" =>
        LET IsText(d) == ~d.long
            IsStructured(d) == d.long
            texts == SelectSeq(lastOp.ports, IsText)
        IN  IF \E i \in 1..Len(texts) : ~EntryFromText(texts[i].text).ok
            THEN ~lastOp.ok /\ mapper = EmptyMapper
            ELSE /\ lastOp.ok
                 /\ mapper.shortPorts =
                       [i \in 1..Len(texts) |-> EntryFromText(texts[i].text).v]
                 /\ mapper.longPorts = SelectSeq(lastOp.ports, IsStructured)

\* A list whose second text is malformed, after a text that parses, was
\* refused; and a list of a text and a structured entry was constructed.
C22_Witness ==
    /\ lastOp.op = "new"
    /\ Len(lastOp.ports) = 2
    /\ ~lastOp.ports[1].long
    /\ EntryFromText(lastOp.ports[1].text).ok
    /\ \/ /\ ~lastOp.ports[2].long
          /\ ~EntryFromText(lastOp.ports[2].text).ok
          /\ ~lastOp.ok
          /\ mapper = EmptyMapper
       \/ /\ lastOp.ports[2].long
          /\ lastOp.ok
          /\ Len(mapper.shortPorts) = 1 /\ mapper.longPorts = <<lastOp.ports[2]>>

\* C23 (serialize): reading composeFormat returns one text per short-form
\* entry, the rendering of that entry, in collection order; its length is the
\* number of short-form entries whatever the long-form collection holds, and
\* the mapper is the same afterwards.
C23_Steps ==
    lastOp'.op = "serialize" =>
        /\ Len(lastOp'.texts) = Len(mapper.shortPorts)
        /\ \A i \in 1..Len(mapper.shortPorts) :
              lastOp'.texts[i] = entry(mapper.shortPorts[i])
        /\ mapper' = mapper

C23_Serialize == [][C23_Steps]_vars

\* Two different short-form entries were serialized while the mapper held a
\* long-form entry.
C23_Witness ==
    /\ lastOp.op = "serialize"
    /\ Len(lastOp.texts) = 2
    /\ lastOp.texts[1] # lastOp.texts[2]
    /\ mapper.longPorts # <<>>

\* A port in 1..65535, or a Range with start <= end.
InDataModel(v) ==
    IF v.isRange THEN v.start # NaN /\ v.end # NaN /\ v.start <= v.end
    ELSE v.start \in 1..65535

\* C24 (data-model invariant): every short-form entry of the mapper has a
\* guest that is a port in 1..65535 or a Range with start <= end, and a host
\* that is one of these or the undefined sentinel.
C24_DataModel ==
    \A i \in 1..Len(mapper.shortPorts) :
        /\ InDataModel(mapper.shortPorts[i].container)
        /\ \/ InDataModel(mapper.shortPorts[i].host)
           \/ mapper.shortPorts[i].host = Port(NaN)

\* A protocol segment parseProtocol accepts.
KnownSegment(seg) == seg \in {<<>>, <<"/">>, <<"/">> \o TCP, <<"/">> \o UDP}

\* C25 (field assignment): a text hostIP:host:guest with a valid IP literal
\* and a host token parses to the guest of the last field, the host of the
\* field before it and the hostIP written before that (brackets stripped),
\* also when the host token occurs inside the IP literal.
C25_FieldAssignment ==
    LET src == lastOp.src
    IN  (/\ lastOp.op = "parse"
         /\ src.fields = 3
         /\ ValidIP(Literal(src.ip))
         /\ src.host \in HostTokens \ {<<>>}
         /\ src.guest \in GuestTokens
         /\ KnownSegment(src.seg)) =>
            /\ lastOp.res.ok
            /\ lastOp.res.v.container = TokenValue(src.guest)
            /\ lastOp.res.v.host = TokenValue(src.host)
            /\ lastOp.res.v.hostIP = Literal(src.ip)

\* C26 (no silent coercion): a text whose host or guest token is neither a
\* number nor a range does not parse.
C26_NoCoercion ==
    (/\ lastOp.op = "parse"
     /\ \/ lastOp.src.guest \in MalformedTokens
        \/ lastOp.src.fields >= 2 /\ lastOp.src.host \in MalformedTokens) =>
        ~lastOp.res.ok

\* A one-field text whose field is a number or a range.
OneField(src) == src.fields = 1 /\ src.guest \notin MalformedTokens

\* C27 as stated (one-field text): the guest is the field, the hostIP is
\* 0.0.0.0 and the host is the undefined value.
C27_Original ==
    (lastOp.op = "parse" /\ OneField(lastOp.src) /\ KnownSegment(lastOp.src.seg)) =>
        /\ lastOp.res.ok
        /\ lastOp.res.v.container = TokenValue(lastOp.src.guest)
        /\ lastOp.res.v.hostIP = DefaultHostIP
        /\ lastOp.res.v.host = Port(NaN)

\* C27 (one-field text, amended): the guest is the field, the hostIP is
\* 0.0.0.0 and the host is the same port or range as the guest.
C27_OneField ==
    (lastOp.op = "parse" /\ OneField(lastOp.src) /\ KnownSegment(lastOp.src.seg)) =>
        /\ lastOp.res.ok
        /\ lastOp.res.v.container = TokenValue(lastOp.src.guest)
        /\ lastOp.res.v.hostIP = DefaultHostIP
        /\ lastOp.res.v.host = TokenValue(lastOp.src.guest)

\* "80/udp" was parsed to host 80 and guest 80.
C27_Witness ==
    /\ lastOp.op = "parse" /\ lastOp.res.ok
    /\ lastOp.src.fields = 1
    /\ lastOp.src.guest = <<"8", "0">> /\ lastOp.src.seg = <<"/">> \o UDP
    /\ lastOp.res.v.host = Port(80) /\ lastOp.res.v.container = Port(80)

\* Host and guest tokens of the form start-end.
RangeTokens == {<<"8", "0", "-", "8", "1">>, <<"1", "-", "8", "0">>, <<"8", "1", "-", "8", "0">>}

\* C28 (range parsing): a host or guest token start-end parses to the Range of
\* its two integers, the host and the guest each from its own token, and the
\* entry renders with both ranges written as start-end.
C28_RangeParsing ==
    LET src == lastOp.src
        v == lastOp.res.v
    IN  /\ (lastOp.op = "parse" /\ src.fields = 2 /\ KnownSegment(src.seg)
               /\ (src.host \in RangeTokens \/ src.guest \in RangeTokens)
               /\ src.host \notin MalformedTokens /\ src.guest \notin MalformedTokens) =>
              lastOp.res.ok
        /\ (lastOp.op \in {"parse", "render"} /\ lastOp.res.ok) =>
              /\ (src.fields >= 2 /\ src.host \in RangeTokens) =>
                    (v.host.isRange /\ v.host = TokenValue(src.host))
              /\ src.guest \in RangeTokens =>
                    (v.container.isRange /\ v.container = TokenValue(src.guest))
        /\ (lastOp.op = "render" /\ src.fields = 2
               /\ src.host \in RangeTokens /\ src.guest \in RangeTokens) =>
              lastOp.text = v.hostIP \o <<":">> \o src.host \o <<":">> \o src.guest
                                \o <<"/">> \o v.protocol

\* "1-80:80-81" was parsed to the ranges 1..80 and 80..81 and rendered as
\* 0.0.0.0:1-80:80-81/tcp.
C28_Witness ==
    /\ lastOp.op = "render"
    /\ lastOp.src.host = <<"1", "-", "8", "0">>
    /\ lastOp.src.seg = <<>>
    /\ lastOp.res.v.host = RangeOf(1, 80)
    /\ lastOp.res.v.container = RangeOf(80, 81)
    /\ lastOp.text = DefaultHostIP
          \o <<":", "1", "-", "8", "0", ":", "8", "0", "-", "8", "1", "/">> \o TCP

\* ------------------------------------------ further claims on the handlers

\* C29, step by step, for the latest call: it goes on to listApps only in a
\* step that finds the guest online, with every start/unpause it made
\* returned successfully; the launch is dispatched only in the step in which
\* listApps returned a list holding the target; and the grace timer is armed
\* only with the launch dispatched.
C29_Steps ==
    LET c == nCalls' IN
    /\ (nCalls' > 0 /\ log'.listAppsCalls > (IF nCalls' = nCalls THEN log.listAppsCalls ELSE 0))
       => ( /\ isOnline
            /\ pc'[c] = "apps"
            /\ pc[c] # "apps"
            /\ log'.launchCalls = 0
            /\ (log'.startCalls + log'.unpauseCalls > 0 => log'.resumeOk = "yes") )
    /\ \A d \in Calls :
         /\ (launch[d] = "none" /\ launch'[d] # "none")
            => ( /\ d = c
                 /\ pc[d] = "apps" /\ pc'[d] = "returned"
                 /\ log'.listAppsCalls = 1
                 /\ ListHasTarget(log') )
         /\ (graceTimer[d] = 0 /\ graceTimer'[d] # 0)
            => (launch[d] = "none" /\ launch'[d] = "pending")

\* C29 (sequential steps): listApps is invoked only after the call's
\* start/unpause returned and the guest was seen online, the launch only after
\* listApps returned a list with a match, the grace timer only with the launch
\* dispatched.
C29_Sequential == [][C29_Steps]_vars

\* A by-path call unpaused the container, waited, listed the apps and
\* dispatched the launch; its grace timer is pending.
C29_Witness ==
    /\ nCalls > 0
    /\ log.handler = "by-path"
    /\ log.unpauseCalls = 1 /\ log.resumeOk = "yes"
    /\ log.listAppsCalls = 1 /\ log.launchCalls = 1
    /\ launch[nCalls] = "pending"
    /\ graceTimer[nCalls] = GraceDelayMs

\* C30 (port resolution retried under a bound): a call in its readiness wait
\* whose next check finds the port mapper not ready does not go on to
\* listApps: it sleeps again while fewer than 30 attempts were made and fails
\* at the 30th.
C30_PortRetry ==
    \A c \in Calls :
          pc[c] = "poll2" =>
              \A appMgr \in BOOLEAN :
                  LET k == ReadyWaitCheck(handler[c], state, attempts[c] + 1, appMgr, FALSE)
                  IN  /\ k.listApps = 0
                      /\ k.pc = IF attempts[c] + 1 < MaxReadyAttempts
                                THEN "poll2" ELSE "returned"

\* C31, step by step, for the latest call when it found the container
\* running: it has called neither start nor unpause, it invokes listApps only
\* in a step that finds the guest online, and it dispatches the launch only
\* with listApps invoked before.
C31_Steps ==
    LET c == nCalls' IN
    (nCalls' > 0 /\ log'.sawStatus = "running") =>
        /\ log'.startCalls = 0 /\ log'.unpauseCalls = 0
        /\ log'.resumeOk = Null
        /\ pc'[c] \notin {"starting", "unpausing", "poll1"}
        /\ (pc'[c] = "apps" /\ (nCalls' # nCalls \/ pc[c] # "apps")) => isOnline
        /\ ~isOnline =>
               log'.listAppsCalls = IF nCalls' = nCalls THEN log.listAppsCalls ELSE 0
        /\ log'.launchCalls > 0 => log'.listAppsCalls = 1

\* C31 (running container): a call that finds the container running invokes
\* neither start nor unpause, and invokes neither listApps nor launch before
\* it has seen the guest reachable.
C31_RunningNoResume == [][C31_Steps]_vars

\* A call that found the container running waited for the guest, listed the
\* apps and dispatched the launch without a start or an unpause.
C31_Witness ==
    /\ nCalls > 0
    /\ log.sawStatus = "running"
    /\ log.appMgr = "yes"
    /\ log.startCalls = 0 /\ log.unpauseCalls = 0
    /\ log.listAppsCalls = 1 /\ log.launchCalls = 1
    /\ nCalls = 1 /\ state.currentStep = "launching-app"

\* C32 (no rollback): on no path does a launch call ask the Runtime to stop
\* or pause the container (haltCalls counts such calls), so whatever the
\* outcome, the call's start or unpause is the last thing the Runtime was
\* asked.
C32_NoRollback ==
    /\ log.haltCalls = 0
    /\ log.startCalls + log.unpauseCalls <= 1

\* A call started the container and then gave up waiting for the guest; the
\* Runtime was not asked to stop or pause.
C32_Witness ==
    /\ nCalls > 0
    /\ log.startCalls = 1
    /\ log.resumeOk = "yes"
    /\ log.outcome = "offline-timeout"
    /\ log.haltCalls = 0
    /\ ~state.isLoading

\* The outcomes with which a call reports failure (each through cancelLaunch).
FailureOutcomes ==
    {"offline-timeout", "start-failed", "launch-failed", "app-not-found",
     "launch-rejected"}

\* A step in which a timer of the latest call, which has reported failure,
\* fires does not set the progress to completed.
C33_Steps ==
    \A c \in Calls :
        ( /\ Latest(c) /\ nCalls' = nCalls
          /\ log.outcome \in FailureOutcomes
          /\ (graceTimer'[c] # graceTimer[c] \/ dismissTimer'[c] # dismissTimer[c]) )
        => state'.currentStep # "completed"

\* C33 (failed and completed exclude each other): once a call has reported
\* failure, including a launch that rejects during the grace period, no later
\* effect of that call sets currentStep to completed.
C33_FailedNotCompleted == [][C33_Steps]_vars

\* The present step reads back, with lookup or hasMapping, the (guest port,
\* protocol) that the call before it set to a concrete host port.
ReadBack(kind) ==
    /\ lastOp.op = "set" /\ lastOp.options.given /\ ~lastOp.host.isRange
    /\ lastOp'.op = kind
    /\ lastOp'.guestPort = lastOp.guestPort
    /\ lastOp'.protocol = lastOp.options.protocol

C34_Steps ==
    /\ ReadBack("get") => (lastOp'.found /\ lastOp'.v.host = lastOp.host)
    /\ ReadBack("has") => lastOp'.res

\* C34 (read after write): in every mapper state, the empty one included,
\* right after setMapping(g, h, {protocol: p}) with a concrete host port h,
\* lookup(g, p) returns an entry whose host is h and hasMapping(g, p) is true.
C34_ReadAfterWrite == [][C34_Steps]_vars

\* An upper bound on the one-second sleeps the handler of call c can still
\* take before it returns (the sleep it is in included), plus the awaited
\* calls still ahead of it.
SleepsLeft(c) ==
    CASE pc[c] = "idle"                     -> MaxOnlineAttempts + MaxReadyAttempts + 4
      [] pc[c] \in {"starting", "unpausing"} -> MaxOnlineAttempts + MaxReadyAttempts + 3
      [] pc[c] = "poll1" -> (MaxOnlineAttempts - attempts[c]) + MaxReadyAttempts + 2
      [] pc[c] = "poll2" -> (MaxReadyAttempts - attempts[c]) + 1
      [] pc[c] = "apps"  -> 1
      [] OTHER           -> 0

\* Every step of a handler brings it nearer to its return, a sleep is a
\* one-second sleep, and a returned handler stays returned.
C35_Steps ==
    \A c \in Calls :
        /\ Moved(c) => SleepsLeft(c)' < SleepsLeft(c)
        /\ sleepMs'[c] \in {0, PollIntervalMs}
        /\ (pc'[c] = "poll1" => attempts'[c] < MaxOnlineAttempts)
        /\ (pc'[c] = "poll2" => attempts'[c] < MaxReadyAttempts)

\* No handler is running and no timer is pending.
Quiet == \A c \in Calls : ~Running(c) /\ graceTimer[c] = 0 /\ dismissTimer[c] = 0

\* With every handler returned and every timer fired there is no overlay.
C35_Settled == Quiet => ~state.isLoading

\* C35 (termination): a launch call whose Runtime and Guest API calls settle
\* returns after at most 60 + 30 one-second sleeps, and once every timer of
\* every started call has fired isLoading is false, so the overlay does not
\* stay for ever.
C35_Terminates ==
    /\ [][C35_Steps]_vars
    /\ [](C35_Settled)
    /\ []<>Quiet

\* A call that started the container ran to the dispatch, both its timers
\* fired and the overlay is gone.
C35_Witness ==
    /\ nCalls > 0
    /\ Quiet
    /\ log.startCalls = 1 /\ log.outcome = "dispatched"
    /\ state.currentStep = "completed"
    /\ ~state.isLoading

\* The short-form collection holds at most one entry per (concrete guest
\* port, protocol) pair.
Unique(m) ==
    \A i, j \in 1..Len(m.shortPorts) :
        ( /\ ~m.shortPorts[i].container.isRange
          /\ m.shortPorts[i].container = m.shortPorts[j].container
          /\ m.shortPorts[i].protocol = m.shortPorts[j].protocol ) => i = j

C36_Steps == (lastOp'.op = "set" /\ Unique(mapper)) => Unique(mapper')

\* C36 (uniqueness preserved): a setMapping call on a collection with at most
\* one entry per (concrete guest port, protocol) pair leaves at most one entry
\* per pair, so any sequence of such calls does.
C36_UniquePreserved == [][C36_Steps]_vars

\* A setMapping call stored the second of two entries for the same guest port
\* under different protocols, and the collection holds one entry per pair.
C36_Witness ==
    /\ lastOp.op = "set" /\ lastOp.ok
    /\ Len(mapper.shortPorts) = 2
    /\ mapper.shortPorts[2] = Asked(lastOp)
    /\ mapper.shortPorts[1].container = mapper.shortPorts[2].container
    /\ mapper.shortPorts[1].protocol # mapper.shortPorts[2].protocol
    /\ mapper.shortPorts[2].host # mapper.shortPorts[1].host
    /\ Unique(mapper)

\* C37 (isPortOpen settles): whatever the bind does (listening, address in
\* use, any other error), the promise isPortOpen returned is eventually
\* resolved with a boolean; it is true only when the bind succeeded, false
\* only when it failed, and after a successful bind the server is closed.
C37_Settles ==
    /\ \A i \in Probes :
           (probes[i].promise = "pending") ~> (probes[i].promise \in {"true", "false"})
    /\ [](\A i \in Probes :
             /\ probes[i].promise = "true" => probes[i].server = "closed"
             /\ probes[i].promise = "false" => probes[i].server = "failed"
             /\ probes[i].server = "closed" => probes[i].promise = "true")

\* The Runtime is asked to resume only in the first step of a call, and then
\* once at most; the launch is dispatched once at most, by the step in which
\* listApps returns.
C38_Steps ==
    /\ log'.startCalls + log'.unpauseCalls <= 1
    /\ log'.launchCalls <= 1
    /\ nCalls' = nCalls =>
          /\ log'.startCalls = log.startCalls
          /\ log'.unpauseCalls = log.unpauseCalls
          /\ log'.launchCalls >= log.launchCalls
          /\ log'.launchCalls > log.launchCalls =>
                (pc[nCalls] = "apps" /\ pc'[nCalls] = "returned")
    /\ nCalls' # nCalls => log'.launchCalls = 0

\* C38 (at most once): on every path of a launch call, start and unpause are
\* invoked at most once together and the app launch is dispatched at most once.
C38_AtMostOnce == [][C38_Steps]_vars

\* A call unpaused the container once and dispatched the launch once; the
\* launch is still running.
C38_Witness ==
    /\ nCalls > 0
    /\ log.unpauseCalls = 1 /\ log.startCalls = 0
    /\ log.launchCalls = 1
    /\ launch[nCalls] = "pending"
    /\ pc[nCalls] = "returned"

\* Position of a progress phase in the order of the phases.
PhaseRank(step) ==
    CASE step = "starting-container" -> 1
      [] step = "waiting-online"     -> 2
      [] step = "launching-app"      -> 3
      [] step = "completed"          -> 4
      [] OTHER                       -> 0

\* The latest call has no other call beside it: every other handler has
\* returned and the launch it dispatched, if any, has settled.
NoOverlap ==
    \A d \in Calls : d # nCalls => (~Running(d) /\ launch[d] # "pending")

\* Within the latest call, with no other call beside it: the phase never moves
\* to an earlier one, after a reset only completed is set, and the handler's
\* updateStep calls change nothing while isLoading is false.
C39_Steps ==
    (nCalls' = nCalls /\ nCalls > 0 /\ NoOverlap) =>
        /\ (state.currentStep # Null /\ state'.currentStep # Null) =>
              PhaseRank(state'.currentStep) >= PhaseRank(state.currentStep)
        /\ (state.currentStep = Null /\ state'.currentStep # Null) =>
              state'.currentStep = "completed"
        /\ (~state.isLoading /\ Moved(nCalls)) => state' \in {state, IdleState}

\* C39 (phases move forward): within one launch call with no overlapping call,
\* currentStep goes through starting-container, waiting-online, launching-app,
\* completed in this order (skipping allowed), never back to an earlier phase,
\* and updateStep changes nothing while isLoading is false.
C39_Forward == [][C39_Steps]_vars

====
